---------------------------- MODULE Spec2Model ----------------------------
(***************************************************************************)
(* Gaussian elimination solver (src/gauss_elimination_cplus.cpp).          *)
(*                                                                         *)
(* The globals matrix (an array of row pointers), B and C, the locals of   *)
(* main (nsize, s) and the position of the program are the state.  A       *)
(* double is modelled by an exact rational <<p, q>> in lowest terms with   *)
(* q > 0: the statements about values are statements of exact arithmetic.  *)
(* Indices are 0-based as in the source.                                   *)
(*                                                                         *)
(*   Spec     main(): option parsing, allocate_memory, initMatrix,         *)
(*            computeGauss, solveGauss and the verification loop.          *)
(*   SpecGen  computeGauss, solveGauss and the verification loop run on    *)
(*            an arbitrary input system (A0, b0) from a bounded family.    *)
(***************************************************************************)
EXTENDS Integers, Sequences, FiniteSets

VARIABLES pc, nsize, s, optcnt, matrix, heap, B, C, currow, irow, A0, b0, Bown

vars == <<pc, nsize, s, optcnt, matrix, heap, B, C, currow, irow, A0, b0, Bown>>

(***************************************************************************)
(* Bounds of the model.                                                    *)
(***************************************************************************)
\* largest dimension for which main's pipeline is run
MaxN == 4
\* most -s options on one command line
MaxOpts == 2
\* longest option argument, in characters
MaxArgLen == 2
\* largest dimension of an arbitrary input system
GenN == 3
\* largest sum of the absolute values of the entries of an arbitrary input matrix
GenWeight == 4

\* the default dimension
DefaultSize == 1024

(***************************************************************************)
(* Exact rational arithmetic standing for double.                          *)
(***************************************************************************)
RECURSIVE GCD(_, _)
GCD(a, b) == IF b = 0 THEN a ELSE GCD(b, a % b)

IAbs(a) == IF a < 0 THEN -a ELSE a

Rat(p, q) ==
    LET g  == GCD(IAbs(p), IAbs(q))
        sg == IF q < 0 THEN -1 ELSE 1
    IN  <<sg * (p \div g), sg * (q \div g)>>

RInt(k) == <<k, 1>>
Zero == RInt(0)
One == RInt(1)
RAdd(x, y) == Rat(x[1] * y[2] + y[1] * x[2], x[2] * y[2])
RSub(x, y) == Rat(x[1] * y[2] - y[1] * x[2], x[2] * y[2])
RMul(x, y) == Rat(x[1] * y[1], x[2] * y[2])
RDiv(x, y) == Rat(x[1] * y[2], x[2] * y[1])
RNeg(x) == <<-x[1], x[2]>>
RGt(x, y) == x[1] * y[2] > y[1] * x[2]

\* #define ABS(a) (((a) > 0) ? (a) : -(a))
ABS(a) == IF RGt(a, Zero) THEN a ELSE RNeg(a)

(***************************************************************************)
(* The matrix store: matrix[i] is a pointer to a row buffer, heap[r] is    *)
(* the buffer r.  allocate_memory makes matrix[i] point at buffer i.       *)
(***************************************************************************)
Idx(n) == 0 .. (n - 1)

\* the content of a buffer malloc returned and nothing wrote: no rational
Uninit == <<0, 0>>

\* allocate_memory: the row pointers; B and C are not initialised
AllocRows(size) == [i \in Idx(size) |-> i]
AllocVec(size) == [i \in Idx(size) |-> Uninit]

\* initMatrix: matrix[i][j] = (j < i) ? 2*(j+1) : 2*(i+1)
InitEntry(i, j) == IF j < i THEN RInt(2 * (j + 1)) ELSE RInt(2 * (i + 1))
InitHeap(n) == [i \in Idx(n) |-> [j \in Idx(n) |-> InitEntry(i, j)]]
\* variant of InitB: B[i] = i + 1
InitBOneBased(n) == [i \in Idx(n) |-> RInt(i + 1)]

\* initMatrix: B[i] = (double)i
InitB(n) == [i \in Idx(n) |-> RInt(i)]

\* #define PSWAP(a, b): exchange two row pointers
PSWAP(mat, a, b) == [mat EXCEPT ![a] = mat[b], ![b] = mat[a]]
\* #define DSWAP(a, b): exchange two doubles
DSWAP(v, a, b) == [v EXCEPT ![a] = v[b], ![b] = v[a]]

(***************************************************************************)
(* getPivot                                                                *)
(***************************************************************************)
\* variant of Bigger: if (tmp >= big)
BiggerOrEqual(tmp, big) == ~RGt(big, tmp)

\* if (tmp > big)
Bigger(tmp, big) == RGt(tmp, big)

\* first row scanned after currow
ScanFrom(cur) == cur + 1

\* for (i = currow + 1; i < nsize; i++) { tmp = ABS(matrix[i][currow]); ... }
RECURSIVE PivotScan(_, _, _, _, _, _, _)
PivotScan(n, cur, mat, hp, i, big, ir) ==
    IF i >= n THEN <<big, ir>>
    ELSE LET tmp == ABS(hp[mat[i]][cur])
         IN  IF Bigger(tmp, big)
             THEN PivotScan(n, cur, mat, hp, i + 1, tmp, i)
             ELSE PivotScan(n, cur, mat, hp, i + 1, big, ir)

\* <<big, irow>> after the scan
PivotSearch(n, cur, mat, hp) ==
    PivotScan(n, cur, mat, hp, ScanFrom(cur), ABS(hp[mat[cur]][cur]), cur)

\* if (irow != currow) PSWAP(matrix[irow], matrix[currow])
SwapRows(mat, ir, cur) == IF ir # cur THEN PSWAP(mat, ir, cur) ELSE mat
\* variant of SwapB: B is not exchanged
SwapBNone(b, ir, cur) == b

\* if (irow != currow) DSWAP(B[irow], B[currow])
SwapB(b, ir, cur) == IF ir # cur THEN DSWAP(b, ir, cur) ELSE b

\* matrix[currow][currow] = 1.0; matrix[currow][i] /= pivotVal for i > currow
NormalizeRow(n, cur, row, pivotVal) ==
    [j \in Idx(n) |-> IF j = cur THEN One
                      ELSE IF j > cur THEN RDiv(row[j], pivotVal)
                      ELSE row[j]]

\* the whole of getPivot(nsize, currow) on the store (mat, hp, b)
getPivot(n, cur, mat, hp, b) ==
    LET ps  == PivotSearch(n, cur, mat, hp)
        big == ps[1]
        ir  == ps[2]
    IN  IF big = Zero
        THEN [singular |-> TRUE, irow |-> ir, matrix |-> mat, heap |-> hp, B |-> b]
        ELSE LET mat1     == SwapRows(mat, ir, cur)
                 b1       == SwapB(b, ir, cur)
                 pivotVal == hp[mat1[cur]][cur]
             IN  IF pivotVal # One
                 THEN [singular |-> FALSE, irow |-> ir, matrix |-> mat1,
                       heap |-> [hp EXCEPT ![mat1[cur]] =
                                    NormalizeRow(n, cur, hp[mat1[cur]], pivotVal)],
                       B |-> [b1 EXCEPT ![cur] = RDiv(b1[cur], pivotVal)]]
                 ELSE [singular |-> FALSE, irow |-> ir, matrix |-> mat1,
                       heap |-> hp, B |-> b1]

(***************************************************************************)
(* computeGauss: the elimination below the pivot of step i                 *)
(***************************************************************************)
\* variant of ElimRows: every row but the pivot row
ElimRowsAll(n, i) == Idx(n) \ {i}

\* for (j = i + 1; j < nsize; j++)
ElimRows(n, i) == (i + 1) .. (n - 1)

\* variant of ElimRow: matrix[j][i] is not set to 0.0
ElimRowNoZero(n, i, rowj, rowi) ==
    LET pivotVal == rowj[i]
    IN  [k \in Idx(n) |-> IF k > i THEN RSub(rowj[k], RMul(pivotVal, rowi[k]))
                          ELSE rowj[k]]

\* pivotVal = matrix[j][i]; matrix[j][i] = 0.0; matrix[j][k] -= pivotVal * matrix[i][k]
ElimRow(n, i, rowj, rowi) ==
    LET pivotVal == rowj[i]
    IN  [k \in Idx(n) |-> IF k = i THEN Zero
                          ELSE IF k > i THEN RSub(rowj[k], RMul(pivotVal, rowi[k]))
                          ELSE rowj[k]]

\* the loop over j of step i; the rows j are updated from row i, which is not written
eliminate(n, i, mat, hp, b) ==
    [heap |-> [r \in DOMAIN hp |->
                 IF \E j \in ElimRows(n, i) : mat[j] = r
                 THEN ElimRow(n, i, hp[r], hp[mat[i]])
                 ELSE hp[r]],
     B |-> [j \in Idx(n) |->
                 IF j \in ElimRows(n, i)
                 THEN RSub(b[j], RMul(hp[mat[j]][i], b[i]))
                 ELSE b[j]]]

(***************************************************************************)
(* solveGauss                                                              *)
(***************************************************************************)
\* variant of BackSubRow: C[row] += matrix[row][col] * C[col]
RECURSIVE BackSubRowAdd(_, _, _, _, _, _)
BackSubRowAdd(mat, hp, c, row, col, acc) ==
    IF col <= row THEN acc
    ELSE BackSubRowAdd(mat, hp, c, row, col - 1,
                       RAdd(acc, RMul(hp[mat[row]][col], c[col])))

\* for (col = nsize - 1; col > row; col--) C[row] -= matrix[row][col] * C[col]
RECURSIVE BackSubRow(_, _, _, _, _, _)
BackSubRow(mat, hp, c, row, col, acc) ==
    IF col <= row THEN acc
    ELSE BackSubRow(mat, hp, c, row, col - 1,
                    RSub(acc, RMul(hp[mat[row]][col], c[col])))

\* for (row = nsize - 2; row >= 0; row--) { C[row] = B[row]; ... }
RECURSIVE BackSub(_, _, _, _, _, _)
BackSub(n, mat, hp, b, c, row) ==
    IF row < 0 THEN c
    ELSE BackSub(n, mat, hp, b,
                 [c EXCEPT ![row] = BackSubRow(mat, hp, c, row, n - 1, b[row])],
                 row - 1)

\* variant of solveGauss: the back-substitution is done in B and copied to C
solveGaussInPlace(n, mat, hp, b, c) ==
    LET x == BackSub(n, mat, hp, b, [c EXCEPT ![n - 1] = b[n - 1]], n - 2)
    IN  [matrix |-> mat, heap |-> hp, B |-> x, C |-> x]

\* the whole of solveGauss(nsize): the store after the call
solveGauss(n, mat, hp, b, c) ==
    [matrix |-> mat, heap |-> hp, B |-> b,
     C |-> BackSub(n, mat, hp, b, [c EXCEPT ![n - 1] = b[n - 1]], n - 2)]

(***************************************************************************)
(* main: the verification loop                                             *)
(***************************************************************************)
Half == Rat(1, 2)

\* the value asserted for C[n]
Expected(n, ns) ==
    IF n = 0 THEN RNeg(Half)
    ELSE IF n = ns - 1 THEN Half
    ELSE Zero

VerifyOK(ns, c) == \A n \in Idx(ns) : c[n] = Expected(n, ns)

(***************************************************************************)
(* main: the command line.  Each -s option carries a string; atoi reads an *)
(* optional sign and the leading decimal digits of it.                     *)
(***************************************************************************)
DigitChars == <<"0", "1", "2", "3", "4", "5", "6", "7", "8", "9">>

IsDigit(c) == \E d \in 1 .. 10 : DigitChars[d] = c
DigitVal(c) == (CHOOSE d \in 1 .. 10 : DigitChars[d] = c) - 1

RECURSIVE AtoiDigits(_, _, _)
AtoiDigits(a, k, acc) ==
    IF k > Len(a) \/ ~IsDigit(a[k]) THEN acc
    ELSE AtoiDigits(a, k + 1, 10 * acc + DigitVal(a[k]))

atoi(a) ==
    IF Len(a) = 0 THEN 0
    ELSE IF a[1] = "-" THEN -AtoiDigits(a, 2, 0)
    ELSE IF a[1] = "+" THEN AtoiDigits(a, 2, 0)
    ELSE AtoiDigits(a, 1, 0)

\* the characters an option argument is made of
OptChars == {"-", "x"} \cup {DigitChars[d + 1] : d \in 0 .. MaxN}
OptArgs == UNION {[1 .. k -> OptChars] : k \in 0 .. MaxArgLen}
\* the values atoi gives on the option arguments
AtoiVals == {atoi(a) : a \in OptArgs}

\* variant of NewSize: if (s >= 0)
NewSizeNonNeg(v, ns) == IF v >= 0 THEN v ELSE ns

\* if (s > 0) nsize = s; else printf("  -s is negative... using %d\n", nsize);
NewSize(v, ns) == IF v > 0 THEN v ELSE ns

\* case 's' of the getopt loop
Getopt ==
    /\ pc = "getopt"
    /\ optcnt < MaxOpts
    /\ \E v \in AtoiVals :
          /\ s' = v
          /\ nsize' = NewSize(v, nsize)
    /\ optcnt' = optcnt + 1
    /\ UNCHANGED <<pc, matrix, heap, B, C, currow, irow, A0, b0, Bown>>

\* default: assert(0) on an option getopt does not recognise
BadOption ==
    /\ pc = "getopt"
    /\ optcnt < MaxOpts
    /\ pc' = "abort"
    /\ UNCHANGED <<nsize, s, optcnt, matrix, heap, B, C, currow, irow, A0, b0, Bown>>

\* getopt returns -1: the options are read
EndOptions ==
    /\ pc = "getopt"
    /\ pc' = "init"
    /\ UNCHANGED <<nsize, s, optcnt, matrix, heap, B, C, currow, irow, A0, b0, Bown>>

\* allocate_memory(nsize); initMatrix(nsize); entry of computeGauss
InitMatrix ==
    /\ pc = "init"
    /\ nsize <= MaxN
    /\ matrix' = AllocRows(nsize)
    /\ heap' = InitHeap(nsize)
    /\ B' = InitB(nsize)
    /\ C' = AllocVec(nsize)
    /\ A0' = InitHeap(nsize)
    /\ b0' = InitB(nsize)
    /\ Bown' = AllocRows(nsize)
    /\ currow' = 0
    /\ pc' = "getPivot"
    /\ UNCHANGED <<nsize, s, optcnt, irow>>

(***************************************************************************)
(* computeGauss, step i = currow: getPivot(nsize, i), then the elimination *)
(***************************************************************************)
\* variant of PivotExit: the message is printed and getPivot returns
PivotExitNone(singular) == "eliminate"

\* printf("The matrix is singular\n"); exit(-1);
PivotExit(singular) == IF singular THEN "singular" ELSE "eliminate"

GetPivot ==
    /\ pc = "getPivot"
    /\ LET r == getPivot(nsize, currow, matrix, heap, B)
       IN  /\ irow' = r.irow
           /\ matrix' = r.matrix
           /\ heap' = r.heap
           /\ B' = r.B
           /\ Bown' = IF r.singular THEN Bown ELSE SwapB(Bown, r.irow, currow)
           /\ pc' = PivotExit(r.singular)
    /\ UNCHANGED <<nsize, s, optcnt, C, currow, A0, b0>>

Eliminate ==
    /\ pc = "eliminate"
    /\ LET r == eliminate(nsize, currow, matrix, heap, B)
       IN  /\ heap' = r.heap
           /\ B' = r.B
    /\ currow' = currow + 1
    /\ pc' = IF currow + 1 < nsize THEN "getPivot" ELSE "solve"
    /\ UNCHANGED <<nsize, s, optcnt, matrix, C, irow, A0, b0, Bown>>

SolveGauss ==
    /\ pc = "solve"
    /\ LET r == solveGauss(nsize, matrix, heap, B, C)
       IN  /\ matrix' = r.matrix
           /\ heap' = r.heap
           /\ B' = r.B
           /\ C' = r.C
    /\ pc' = "verify"
    /\ UNCHANGED <<nsize, s, optcnt, currow, irow, A0, b0, Bown>>

\* the assertions on C, then printf("Correct solution found.\n")
Verify ==
    /\ pc = "verify"
    /\ pc' = IF VerifyOK(nsize, C) THEN "done" ELSE "assert_fail"
    /\ UNCHANGED <<nsize, s, optcnt, matrix, heap, B, C, currow, irow, A0, b0, Bown>>

\* main at entry: nsize = 1024; s is written by every -s option before it is read,
\* and the buffers do not exist before allocate_memory
Init ==
    /\ pc = "getopt"
    /\ nsize = DefaultSize
    /\ s = 0
    /\ optcnt = 0
    /\ matrix = <<>>
    /\ heap = <<>>
    /\ B = <<>>
    /\ C = <<>>
    /\ currow = 0
    /\ irow = 0
    /\ A0 = <<>>
    /\ b0 = <<>>
    /\ Bown = <<>>

Next ==
    \/ Getopt
    \/ BadOption
    \/ EndOptions
    \/ InitMatrix
    \/ GetPivot
    \/ Eliminate
    \/ SolveGauss
    \/ Verify

Spec == Init /\ [][Next]_vars

(***************************************************************************)
(* The solver on an arbitrary system (A0, b0): every n x n integer matrix  *)
(* with n <= GenN whose entries have absolute values summing to at most    *)
(* GenWeight, with the right-hand side of initMatrix, b0[i] = i.           *)
(***************************************************************************)
\* the sum of the absolute values of f over the set S of its domain
RECURSIVE SumAbs(_, _)
SumAbs(f, S) ==
    IF S = {} THEN 0
    ELSE LET p == CHOOSE q \in S : TRUE
         IN  IAbs(f[p]) + SumAbs(f, S \ {p})

\* the sets of at most GenWeight cells (cell i * n + j is row i, column j)
GenSupports(n) == {P \in SUBSET (0 .. (n * n - 1)) : Cardinality(P) <= GenWeight}
\* the nonzero entries on the cells P, of total weight at most GenWeight
GenEntries(P) ==
    LET m == GenWeight - Cardinality(P) + 1
    IN  {f \in [P -> ((-m) .. m) \ {0}] : SumAbs(f, P) <= GenWeight}
\* the matrix with the entries f on the cells P and zero elsewhere
MatrixOf(n, P, f) ==
    [i \in Idx(n) |-> [j \in Idx(n) |->
        IF (i * n + j) \in P THEN RInt(f[i * n + j]) ELSE Zero]]

InitGen ==
    /\ pc = "getPivot"
    /\ nsize \in 1 .. GenN
    /\ s = 0
    /\ optcnt = 0
    /\ matrix = AllocRows(nsize)
    /\ \E P \in GenSupports(nsize) : \E f \in GenEntries(P) :
          heap = MatrixOf(nsize, P, f)
    /\ B = InitB(nsize)
    /\ C = AllocVec(nsize)
    /\ currow = 0
    /\ irow = 0
    /\ A0 = heap
    /\ b0 = B
    /\ Bown = AllocRows(nsize)

NextGen ==
    \/ GetPivot
    \/ Eliminate
    \/ SolveGauss
    \/ Verify

SpecGen == InitGen /\ [][NextGen]_vars

(***************************************************************************)
(* Properties                                                              *)
(***************************************************************************)
\* the entry matrix[i][j], read through the row pointer
M(i, j) == heap[matrix[i]][j]

\* pivot steps 0 .. k-1 are finished: unit diagonal and zeros below it in columns < k
Triangular(k) ==
    \A j \in 0 .. (k - 1) :
        /\ M(j, j) = One
        /\ \A i \in (j + 1) .. (nsize - 1) : M(i, j) = Zero

Finished == pc \in {"verify", "done", "assert_fail"}

\* C1: for n >= 2 the run on initMatrix(n) never takes the singular exit and never
\* fails an assertion, and after solveGauss C[0] = -1/2, C[n-1] = 1/2 and every
\* C[i] in between is 0.
C1_InitSolution ==
    nsize >= 2 =>
        /\ pc \notin {"singular", "assert_fail"}
        /\ pc \in {"verify", "done"} =>
              /\ C[0] = Rat(-1, 2)
              /\ C[nsize - 1] = Rat(1, 2)
              /\ \A i \in 1 .. (nsize - 2) : C[i] = Zero

C1_Witness == pc = "done" /\ nsize >= 3 /\ optcnt > 0

\* C2: once pivot step k is finished, every column j <= k has matrix[j][j] = 1 and
\* matrix[i][j] = 0 for every i > j; after getPivot(k) also matrix[k][k] = 1; when
\* computeGauss has completed this holds for every column.
C2_UnitUpperTriangular ==
    /\ Triangular(currow)
    /\ pc = "eliminate" => M(currow, currow) = One
    /\ pc \in {"solve", "verify", "done", "assert_fail"} => currow = nsize

C2_Witness ==
    /\ pc = "solve"
    /\ nsize = 3
    /\ matrix # AllocRows(3)
    /\ \E i \in Idx(3) : \E j \in (i + 1) .. 2 : M(i, j) # Zero

ColumnZero(k) == \A i \in k .. (nsize - 1) : M(i, k) = Zero

\* C3: when column k is zero in every row k..n-1 at pivot step k, getPivot takes the
\* singular exit and writes nothing; the run takes no step after that exit, and at
\* the exit no entry of C has been written.
C3_SingularExit ==
    /\ [][/\ pc # "singular"
          /\ (pc = "getPivot" /\ ColumnZero(currow)) =>
                (pc' = "singular" /\ UNCHANGED <<matrix, heap, B, C, currow>>)]_vars
    /\ [](pc = "singular" => C = AllocVec(nsize))

C3_Witness == pc = "singular" /\ currow >= 1 /\ ColumnZero(currow)

\* C4: for n = 1 the run ends with the success message and C = [0].
C4_SizeOneSucceeds ==
    (nsize = 1 /\ pc \in {"done", "assert_fail"}) => (pc = "done" /\ C[0] = Zero)

\* row i of A multiplied by the denominators of its entries: an integer row
RECURSIVE DenProduct(_, _, _)
DenProduct(row, j, skip) ==
    IF j < 0 THEN 1
    ELSE (IF j = skip THEN 1 ELSE row[j][2]) * DenProduct(row, j - 1, skip)

IntRows(A, n) == [i \in Idx(n) |-> [j \in Idx(n) |-> A[i][j][1] * DenProduct(A[i], n - 1, j)]]

\* the determinant of the integer matrix Z on rows r.. and the columns of the
\* sequence cols, expanded along row r
RECURSIVE IntDet(_, _, _)
RECURSIVE IntDetSum(_, _, _, _)
IntDetSum(Z, r, cols, k) ==
    IF k > Len(cols) THEN 0
    ELSE (IF Z[r][cols[k]] = 0 THEN 0
          ELSE (IF k % 2 = 1 THEN 1 ELSE -1) * Z[r][cols[k]]
               * IntDet(Z, r + 1, SubSeq(cols, 1, k - 1) \o SubSeq(cols, k + 1, Len(cols))))
         + IntDetSum(Z, r, cols, k + 1)
IntDet(Z, r, cols) == IF Len(cols) = 0 THEN 1 ELSE IntDetSum(Z, r, cols, 1)

\* A is nonsingular: scaling a row by a nonzero factor keeps the determinant nonzero
Nonsingular(A, n) == IntDet(IntRows(A, n), 0, [k \in 1 .. n |-> k - 1]) # 0

\* the sum over j in cols of row[j] * x[j]
RECURSIVE Dot(_, _, _)
Dot(row, x, cols) ==
    IF cols = {} THEN Zero
    ELSE LET j == CHOOSE q \in cols : TRUE
         IN  RAdd(RMul(row[j], x[j]), Dot(row, x, cols \ {j}))

\* C5: on a nonsingular input (A0, b0) the run never takes the singular exit, and
\* after solveGauss A0 * C = b0.
C5_SolvesSystem ==
    (pc = "singular" \/ Finished) =>
        (Nonsingular(A0, nsize) =>
            /\ pc # "singular"
            /\ \A i \in Idx(nsize) : Dot(A0[i], C, Idx(nsize)) = b0[i])

C5_Witness ==
    /\ pc = "verify"
    /\ nsize = 3
    /\ Nonsingular(A0, 3)
    /\ matrix # AllocRows(3)
    /\ \E i \in Idx(3) : C[i][2] # 1

\* C6 as stated: after a -s option with a non-positive value the dimension is 1024.
C6_RejectKeepsDefault ==
    (pc = "getopt" /\ optcnt > 0 /\ s <= 0) => nsize = DefaultSize

\* C6: a -s option with a non-positive value leaves the dimension as it was before
\* that option, which is 1024 when it is the first option.
C6_RejectKeepsCurrent ==
    [][(pc = "getopt" /\ optcnt' = optcnt + 1 /\ s' <= 0) =>
          /\ nsize' = nsize
          /\ optcnt = 0 => nsize' = DefaultSize]_vars

C6_Witness == pc = "getopt" /\ optcnt = 2 /\ s < 0 /\ nsize # DefaultSize

\* C7: a step of getPivot that does not exit exchanges the row pointers irow and
\* currow and the values B[irow] and B[currow] (B[currow] then divided by the pivot)
\* and moves no other row or entry of B; at every state the row order of the
\* matrix and the order of B are the same permutation of the original equations.
C7_SwapMirrored ==
    /\ [][(pc = "getPivot" /\ pc' = "eliminate") =>
             LET k == currow
                 r == irow'
                 pivotVal == heap[matrix[r]][k]
             IN  \A i \in Idx(nsize) :
                    /\ matrix'[i] = IF i = k THEN matrix[r]
                                    ELSE IF i = r THEN matrix[k]
                                    ELSE matrix[i]
                    /\ B'[i] = IF i = k THEN RDiv(B[r], pivotVal)
                               ELSE IF i = r THEN B[k]
                               ELSE B[i]]_vars
    /\ [](Bown = matrix)

C7_Witness == pc = "eliminate" /\ currow >= 1 /\ irow # currow /\ B[irow] # B[currow]

\* C8: getPivot at step k selects a row irow in k..n-1 whose entry in column k has
\* the largest absolute value among rows k..n-1, the lowest such row; the row
\* pointers are exchanged when irow differs from k and left alone when it does not.
C8_PivotChoice ==
    [][pc = "getPivot" =>
          LET k == currow
              r == irow'
          IN  /\ r \in k .. (nsize - 1)
              /\ \A i \in k .. (nsize - 1) : ~RGt(ABS(M(i, k)), ABS(M(r, k)))
              /\ \A i \in k .. (r - 1) : RGt(ABS(M(r, k)), ABS(M(i, k)))
              /\ r = k => matrix' = matrix
              /\ r # k => /\ matrix'[k] = matrix[r]
                          /\ matrix'[r] = matrix[k]]_vars

C8_Witness ==
    /\ pc = "eliminate"
    /\ nsize = 3
    /\ currow = 0
    /\ irow = 1
    /\ M(2, 0) # Zero

\* C9: solveGauss leaves the row pointers, every row buffer and B as they were and
\* writes every entry of C.
C9_SolveReadsOnly ==
    [][pc = "solve" =>
          /\ matrix' = matrix
          /\ heap' = heap
          /\ B' = B
          /\ \A i \in Idx(nsize) : C'[i] # Uninit]_vars

C9_Witness == pc = "verify" /\ nsize >= 2 /\ C # B /\ matrix # AllocRows(nsize)

\* C10: no step changes a row with index below the current pivot step: its row
\* pointer, its row buffer and its entry of B stay as they are, through the rest of
\* computeGauss and through solveGauss.
C10_FinishedRowsFrozen ==
    [][\A i \in 0 .. (currow - 1) :
          /\ matrix'[i] = matrix[i]
          /\ heap'[matrix[i]] = heap[matrix[i]]
          /\ B'[i] = B[i]]_vars

C10_Witness ==
    /\ pc = "solve"
    /\ nsize = 3
    /\ M(0, 1) # Zero
    /\ B[1] # Zero

====
